---------------------------- MODULE Spec2Model ----------------------------
(***************************************************************************)
(* Model of the two diagnostic scripts of wiz-mcp:                         *)
(*   wizmcp.py     the streaming-session workflow (async main)             *)
(*   remoteMCP.py  the CLI-invocation runner followed by the direct-call   *)
(*                 runner (main)                                           *)
(* A run is one launch of one script.  `prog` says which script runs, and  *)
(* `env` holds everything the run reads from outside: the environment      *)
(* variables and the behaviour of the external collaborators (network,     *)
(* external process, result artifact, service client).  Text is a          *)
(* sequence of one-character strings, so that replace / startswith / in /  *)
(* lower are computed character by character as Python computes them.      *)
(* `trace` is the sequence of observable events: "print:..." is console    *)
(* output, "op:..." is a call on an external collaborator.                 *)
(***************************************************************************)
EXTENDS Integers, Sequences, FiniteSets, TLC

VARIABLES
    prog,         \* the script launched: "wizmcp" or "remoteMCP"
    pc,           \* the statement the script is at
    env,          \* environment variables and collaborators' behaviour
    encoded_arn,  \* wizmcp.py:20
    mcp_url,      \* wizmcp.py:21
    streams,      \* wizmcp.py:39 read_stream, write_stream: none / open / closed
    session,      \* wizmcp.py:45 session: none / open / closed
    exc,          \* the exception being propagated, if any
    result,       \* wizmcp.py:49 tool_result; remoteMCP.py:58 result, :133 response
    trace,        \* console output and calls on collaborators, in order
    exitStatus    \* -1 while running, else the status the process ended with

vars == <<prog, pc, env, encoded_arn, mcp_url, streams, session, exc,
          result, trace, exitStatus>>

---------------------------------------------------------------------------
(* Bounds of the model.                                                    *)

\* longest AGENT_ARN value explored character by character
MaxArnLen == 3
\* longest BEARER_TOKEN value explored character by character
MaxTokLen == 4
\* largest number of fragments concatenated into an error text
MaxErrFrags == 2

---------------------------------------------------------------------------
(* Text.                                                                   *)

Strs(A, n) == UNION {[1..k -> A] : k \in 0..n}

RECURSIVE Flatten(_)
Flatten(ss) == IF ss = <<>> THEN <<>> ELSE Head(ss) \o Flatten(Tail(ss))

\* every concatenation of at most n fragments of F
Concats(F, n) == {Flatten(fs) : fs \in Strs(F, n)}

\* Python: pat in s
Contains(s, pat) ==
    \E i \in 1..(Len(s) - Len(pat) + 1) : SubSeq(s, i, i + Len(pat) - 1) = pat

\* Python: s.startswith(p)
StartsWith(s, p) == Len(s) >= Len(p) /\ SubSeq(s, 1, Len(p)) = p

\* Python: s.replace(old, new), old non-empty: leftmost non-overlapping
\* occurrences, scanning left to right
RECURSIVE StrReplace(_, _, _)
StrReplace(s, old, new) ==
    IF Len(s) < Len(old) THEN s
    ELSE IF SubSeq(s, 1, Len(old)) = old
         THEN new \o StrReplace(SubSeq(s, Len(old) + 1, Len(s)), old, new)
         ELSE <<Head(s)>> \o StrReplace(Tail(s), old, new)

UpperChars == <<"A", "B", "C", "D", "E", "F", "G", "H", "I", "J", "K", "L", "M",
                "N", "O", "P", "Q", "R", "S", "T", "U", "V", "W", "X", "Y", "Z">>
LowerChars == <<"a", "b", "c", "d", "e", "f", "g", "h", "i", "j", "k", "l", "m",
                "n", "o", "p", "q", "r", "s", "t", "u", "v", "w", "x", "y", "z">>

LowerChar(c) ==
    IF \E i \in 1..Len(UpperChars) : UpperChars[i] = c
    THEN LowerChars[CHOOSE i \in 1..Len(UpperChars) : UpperChars[i] = c]
    ELSE c

\* Python: s.lower()
Lower(s) == [i \in 1..Len(s) |-> LowerChar(s[i])]

\* os.getenv: None when the variable is not set, else its value
NoneStr == [isNone |-> TRUE, val |-> <<>>]
Some(s) == [isNone |-> FALSE, val |-> s]

\* Python truthiness of an Optional[str]: None and "" are falsy
Truthy(o) == ~o.isNone /\ o.val # <<>>

NoExc == [raised |-> FALSE, cls |-> "", text |-> <<>>]
Raised(cls, text) == [raised |-> TRUE, cls |-> cls, text |-> text]

---------------------------------------------------------------------------
(* Literals of wizmcp.py.                                                  *)

S_colon == <<":">>
S_pct3A == <<"%", "3", "A">>
S_slash == <<"/">>
S_pct2F == <<"%", "2", "F">>
S_AKIA == <<"A", "K", "I", "A">>
S_ASIA == <<"A", "S", "I", "A">>
S_401 == <<"4", "0", "1">>
S_Unauthorized == <<"U", "n", "a", "u", "t", "h", "o", "r", "i", "z", "e", "d">>
S_403 == <<"4", "0", "3">>
S_Forbidden == <<"F", "o", "r", "b", "i", "d", "d", "e", "n">>
S_timeout == <<"t", "i", "m", "e", "o", "u", "t">>
UrlPrefix == <<"h", "t", "t", "p", "s", ":", "/", "/", "b", "e", "d", "r", "o", "c", "k", "-", "a", "g", "e", "n", "t", "c", "o", "r", "e", ".", "u", "s", "-", "e", "a", "s", "t", "-", "1", ".", "a", "m", "a", "z", "o", "n", "a", "w", "s", ".", "c", "o", "m", "/", "r", "u", "n", "t", "i", "m", "e", "s", "/">>
UrlSuffix == <<"/", "i", "n", "v", "o", "c", "a", "t", "i", "o", "n", "s", "?", "q", "u", "a", "l", "i", "f", "i", "e", "r", "=", "D", "E", "F", "A", "U", "L", "T">>

---------------------------------------------------------------------------
(* Pure steps of wizmcp.py main.                                           *)

\* mutant: `and` in place of `or`
ConfigMissing_and(arn, tok) == ~Truthy(arn) /\ ~Truthy(tok)

\* if not agent_arn or not bearer_token
ConfigMissing(arn, tok) == ~Truthy(arn) \/ ~Truthy(tok)

\* mutant: the second replace is dropped
EncodeArn_colonOnly(arn) == StrReplace(arn, S_colon, S_pct3A)

\* agent_arn.replace(':', '%3A').replace('/', '%2F')
EncodeArn(arn) == StrReplace(StrReplace(arn, S_colon, S_pct3A), S_slash, S_pct2F)

\* the f-string of the endpoint URL
McpUrl(enc) == UrlPrefix \o enc \o UrlSuffix

\* mutant: the second prefix is forgotten
LooksLikeAccessKey_akiaOnly(tok) == StartsWith(tok, S_AKIA)

\* bearer_token.startswith('AKIA') or bearer_token.startswith('ASIA')
LooksLikeAccessKey(tok) == StartsWith(tok, S_AKIA) \/ StartsWith(tok, S_ASIA)

\* the if / elif / elif chain on str(e): the guidance printed
WizGuidance(text) ==
    IF Contains(text, S_401) \/ Contains(text, S_Unauthorized)
    THEN <<"print:guide_auth">>
    ELSE IF Contains(text, S_403) \/ Contains(text, S_Forbidden)
    THEN <<"print:guide_perm">>
    ELSE IF Contains(Lower(text), S_timeout)
    THEN <<"print:guide_timeout">>
    ELSE <<>>

\* mutant: the try statement sits inside the two with blocks, so the
\* handler runs while both are still open
RaiseTarget_tryInside(scope) == "handler"

\* where control goes when an exception is raised: out of the innermost
\* enclosing `async with` first ("session" inside ClientSession's block,
\* "streams" inside streamablehttp_client's block only, "try" inside
\* neither), and to the except clause last
RaiseTarget(scope) ==
    CASE scope = "session" -> "close_session"
      [] scope = "streams" -> "close_streams"
      [] OTHER -> "handler"

\* the class of the exception each failing step raises
FailCls(step) ==
    CASE step = "connect" -> "ConnectError"
      [] step = "session" -> "RuntimeError"
      [] step = "initialize" -> "McpError"
      [] step = "list_tools" -> "McpError"
      [] OTHER -> "TypeError"

Fails(step) == env.failAt = step


---------------------------------------------------------------------------
(* Exceptions.  The classes are those the collaborators raise to report a  *)
(* failure; every one of them derives from Exception.                      *)

Parent(cls) ==
    CASE cls = "TimeoutExpired" -> "SubprocessError"
      [] cls = "SubprocessError" -> "Exception"
      [] cls = "FileNotFoundError" -> "OSError"
      [] cls = "PermissionError" -> "OSError"
      [] cls = "OSError" -> "Exception"
      [] cls = "JSONDecodeError" -> "ValueError"
      [] cls = "ValueError" -> "Exception"
      [] cls = "Exception" -> "BaseException"
      [] cls = "BaseException" -> "object"
      [] OTHER -> "Exception"

RECURSIVE IsInstance(_, _)
IsInstance(cls, base) ==
    IF cls = base THEN TRUE
    ELSE IF cls = "object" THEN FALSE
    ELSE IsInstance(Parent(cls), base)

Emit(events) == trace' = trace \o events

---------------------------------------------------------------------------
(* wizmcp.py: async main, run by asyncio.run(main()).                      *)

Raise(scope, step) ==
    /\ exc' = Raised(FailCls(step), env.errText)
    /\ pc' = RaiseTarget(scope)

\* lines 14-18
WizCheckConfig ==
    /\ prog = "wizmcp" /\ pc = "start"
    /\ IF ConfigMissing(env.arn, env.token)
       THEN /\ Emit(<<"print:config_error", "exit:1">>)
            /\ pc' = "exited"
            /\ exitStatus' = 1
       ELSE /\ pc' = "build"
            /\ UNCHANGED <<trace, exitStatus>>
    /\ UNCHANGED <<prog, env, encoded_arn, mcp_url, streams, session, exc, result>>

\* lines 20-28
WizBuildUrl ==
    /\ prog = "wizmcp" /\ pc = "build"
    /\ encoded_arn' = EncodeArn(env.arn.val)
    /\ mcp_url' = McpUrl(encoded_arn')
    /\ Emit(<<"print:invoking", "print:token_prefix">>)
    /\ pc' = "warn"
    /\ UNCHANGED <<prog, env, streams, session, exc, result, exitStatus>>

\* lines 30-36
WizCheckToken ==
    /\ prog = "wizmcp" /\ pc = "warn"
    /\ Emit((IF LooksLikeAccessKey(env.token.val) THEN <<"print:warning">> ELSE <<>>)
            \o <<"print:blank">>)
    /\ pc' = "connect"
    /\ UNCHANGED <<prog, env, encoded_arn, mcp_url, streams, session, exc, result,
                   exitStatus>>

\* lines 38-44: entering streamablehttp_client's block
WizOpenTransport ==
    /\ prog = "wizmcp" /\ pc = "connect"
    /\ IF Fails("connect")
       THEN /\ Emit(<<"op:open_transport">>)
            /\ Raise("try", "connect")
            /\ UNCHANGED streams
       ELSE /\ Emit(<<"op:open_transport", "print:streams_ok">>)
            /\ streams' = "open"
            /\ pc' = "mksession"
            /\ UNCHANGED exc
    /\ UNCHANGED <<prog, env, encoded_arn, mcp_url, session, result, exitStatus>>

\* lines 45-46: entering ClientSession's block
WizCreateSession ==
    /\ prog = "wizmcp" /\ pc = "mksession"
    /\ IF Fails("session")
       THEN /\ Emit(<<"op:create_session">>)
            /\ Raise("streams", "session")
            /\ UNCHANGED session
       ELSE /\ Emit(<<"op:create_session", "print:session_created">>)
            /\ session' = "open"
            /\ pc' = "initialize"
            /\ UNCHANGED exc
    /\ UNCHANGED <<prog, env, encoded_arn, mcp_url, streams, result, exitStatus>>

\* mutant: a failed initialize is tried a second time
WizInitialize_retry ==
    /\ prog = "wizmcp" /\ pc = "initialize"
    /\ IF Fails("initialize")
       THEN /\ Emit(<<"op:initialize", "op:initialize">>)
            /\ Raise("session", "initialize")
       ELSE /\ Emit(<<"op:initialize", "print:initialized">>)
            /\ pc' = "list"
            /\ UNCHANGED exc
    /\ UNCHANGED <<prog, env, encoded_arn, mcp_url, streams, session, result,
                   exitStatus>>

\* lines 47-48
WizInitialize ==
    /\ prog = "wizmcp" /\ pc = "initialize"
    /\ IF Fails("initialize")
       THEN /\ Emit(<<"op:initialize">>)
            /\ Raise("session", "initialize")
       ELSE /\ Emit(<<"op:initialize", "print:initialized">>)
            /\ pc' = "list"
            /\ UNCHANGED exc
    /\ UNCHANGED <<prog, env, encoded_arn, mcp_url, streams, session, result,
                   exitStatus>>

\* lines 49-50
WizListTools ==
    /\ prog = "wizmcp" /\ pc = "list"
    /\ IF Fails("list_tools")
       THEN /\ Emit(<<"op:list_tools">>)
            /\ Raise("session", "list_tools")
            /\ UNCHANGED result
       ELSE /\ Emit(<<"op:list_tools", "print:tools_retrieved">>)
            /\ result' = "tool_result"
            /\ pc' = "dump"
            /\ UNCHANGED exc
    /\ UNCHANGED <<prog, env, encoded_arn, mcp_url, streams, session, exitStatus>>

\* lines 51-52: json.dumps(tool_result) raises TypeError when the object
\* list_tools returned is not JSON serializable
WizPrintTools ==
    /\ prog = "wizmcp" /\ pc = "dump"
    /\ IF Fails("dump")
       THEN /\ Emit(<<"print:tools_header">>)
            /\ Raise("session", "dump")
       ELSE /\ Emit(<<"print:tools_header", "print:tools_json">>)
            /\ pc' = "close_session"
            /\ UNCHANGED exc
    /\ UNCHANGED <<prog, env, encoded_arn, mcp_url, streams, session, result,
                   exitStatus>>

\* leaving the block of line 45 (normally or by an exception)
WizCloseSession ==
    /\ prog = "wizmcp" /\ pc = "close_session"
    /\ session' = "closed"
    /\ Emit(<<"op:close_session">>)
    /\ pc' = "close_streams"
    /\ UNCHANGED <<prog, env, encoded_arn, mcp_url, streams, exc, result, exitStatus>>

\* leaving the block of line 39 (normally or by an exception); without an
\* exception main returns and asyncio.run ends the process normally
WizCloseStreams ==
    /\ prog = "wizmcp" /\ pc = "close_streams"
    /\ streams' = "closed"
    /\ Emit(<<"op:close_streams">>)
    /\ IF exc.raised
       THEN pc' = "handler" /\ UNCHANGED exitStatus
       ELSE pc' = "done" /\ exitStatus' = 0
    /\ UNCHANGED <<prog, env, encoded_arn, mcp_url, session, exc, result>>

\* mutant: the authentication branch ends the process with status 1
WizHandleError_authExits ==
    /\ prog = "wizmcp" /\ pc = "handler"
    /\ IF WizGuidance(exc.text) = <<"print:guide_auth">>
       THEN /\ Emit(<<"print:error", "print:traceback", "print:guide_auth", "exit:1">>)
            /\ pc' = "exited" /\ exitStatus' = 1
       ELSE /\ Emit(<<"print:error", "print:traceback">> \o WizGuidance(exc.text))
            /\ pc' = "done" /\ exitStatus' = 0
    /\ UNCHANGED <<prog, env, encoded_arn, mcp_url, streams, session, exc, result>>

\* lines 53-71: except Exception as e
WizHandleError ==
    /\ prog = "wizmcp" /\ pc = "handler"
    /\ IF IsInstance(exc.cls, "Exception")
       THEN /\ Emit(<<"print:error", "print:traceback">> \o WizGuidance(exc.text))
            /\ pc' = "done" /\ exitStatus' = 0
       ELSE /\ Emit(<<"exit:1">>)
            /\ pc' = "crashed" /\ exitStatus' = 1
    /\ UNCHANGED <<prog, env, encoded_arn, mcp_url, streams, session, exc, result>>


---------------------------------------------------------------------------
(* Literals and pure steps of remoteMCP.py.                                *)

S_AccessDenied == <<"A", "c", "c", "e", "s", "s", "D", "e", "n", "i", "e", "d">>
S_ValidationException == <<"V", "a", "l", "i", "d", "a", "t", "i", "o", "n", "E", "x", "c", "e", "p", "t", "i", "o", "n">>
S_ResourceNotFound == <<"R", "e", "s", "o", "u", "r", "c", "e", "N", "o", "t", "F", "o", "u", "n", "d">>

\* mutant: the validation test comes first in the chain
CliGuidance_validationFirst(stderr) ==
    IF Contains(stderr, S_ValidationException) THEN <<"print:guide_validation">>
    ELSE IF Contains(stderr, S_AccessDenied) THEN <<"print:guide_access_denied">>
    ELSE IF Contains(stderr, S_ResourceNotFound) THEN <<"print:guide_not_found">>
    ELSE <<>>

\* the if / elif / elif chain on result.stderr: the guidance printed
CliGuidance(stderr) ==
    IF Contains(stderr, S_AccessDenied) THEN <<"print:guide_access_denied">>
    ELSE IF Contains(stderr, S_ValidationException) THEN <<"print:guide_validation">>
    ELSE IF Contains(stderr, S_ResourceNotFound) THEN <<"print:guide_not_found">>
    ELSE <<>>

\* mutant: `except Exception` is written before `except TimeoutExpired`
CliHandlerFor_genericFirst(cls) ==
    IF IsInstance(cls, "Exception") THEN "generic"
    ELSE IF IsInstance(cls, "TimeoutExpired") THEN "timeout"
    ELSE "none"

\* mutant: the catch-all clause is missing
CliHandlerFor_noCatchAll(cls) ==
    IF IsInstance(cls, "TimeoutExpired") THEN "timeout" ELSE "none"

\* the except clauses of the outer try of test_with_aws_cli, first match
CliHandlerFor(cls) ==
    IF IsInstance(cls, "TimeoutExpired") THEN "timeout"
    ELSE IF IsInstance(cls, "Exception") THEN "generic"
    ELSE "none"

\* the except clause of the try around open / read / parse
OpenHandles(cls) == IsInstance(cls, "FileNotFoundError")

\* the except clause of the try around json.loads
ParseHandles(cls) == IsInstance(cls, "JSONDecodeError")

\* the exception open("output.json", "r") and f.read() raise, if any
OpenRaises(artifact) ==
    CASE artifact = "missing" -> "FileNotFoundError"
      [] artifact = "unreadable" -> "PermissionError"
      [] OTHER -> ""

\* the exception json.loads(output) raises, if any
ParseRaises(artifact) == IF artifact = "json" THEN "" ELSE "JSONDecodeError"

\* the exception test_with_boto3's try block raises, and where
B3Raises(b3) ==
    CASE b3 = "client_error" -> "NoRegionError"
      [] b3 = "invoke_error_resp" -> "ClientError"
      [] b3 = "invoke_error_plain" -> "EndpointConnectionError"
      [] b3 = "body_read_error" -> "ReadTimeoutError"
      [] OTHER -> ""

---------------------------------------------------------------------------
(* remoteMCP.py: main, test_with_aws_cli, test_with_boto3.                 *)

\* line 158
MainStart ==
    /\ prog = "remoteMCP" /\ pc = "start"
    /\ Emit(<<"print:main_header">>)
    /\ pc' = "cli_begin"
    /\ UNCHANGED <<prog, env, encoded_arn, mcp_url, streams, session, exc, result,
                   exitStatus>>

\* lines 161, 13-54
CliBegin ==
    /\ prog = "remoteMCP" /\ pc = "cli_begin"
    /\ Emit(<<"call:test_with_aws_cli", "print:cli_header", "print:payload",
              "print:command">>)
    /\ pc' = "cli_run"
    /\ UNCHANGED <<prog, env, encoded_arn, mcp_url, streams, session, exc, result,
                   exitStatus>>

\* lines 58-63: subprocess.run
CliRun ==
    /\ prog = "remoteMCP" /\ pc = "cli_run"
    /\ Emit(<<"op:subprocess_run">>)
    /\ IF env.cliKind = "completed"
       THEN /\ result' = "completed"
            /\ pc' = "cli_check"
            /\ UNCHANGED exc
       ELSE /\ exc' = Raised(env.cliKind, <<>>)
            /\ pc' = "cli_except"
            /\ UNCHANGED result
    /\ UNCHANGED <<prog, env, encoded_arn, mcp_url, streams, session, exitStatus>>

\* lines 65-66, 87-98
CliCheck ==
    /\ prog = "remoteMCP" /\ pc = "cli_check"
    /\ IF env.rc = 0
       THEN /\ Emit(<<"print:cli_ok">>)
            /\ pc' = "cli_open"
       ELSE /\ Emit(<<"print:cli_failed", "print:returncode", "print:stdout",
                      "print:stderr">> \o CliGuidance(env.stderr))
            /\ pc' = "b3_begin"
    /\ UNCHANGED <<prog, env, encoded_arn, mcp_url, streams, session, exc, result,
                   exitStatus>>

\* lines 69-73, 84-85
CliOpen ==
    /\ prog = "remoteMCP" /\ pc = "cli_open"
    /\ IF OpenRaises(env.artifact) = ""
       THEN /\ Emit(<<"op:open_artifact", "op:read_artifact", "print:contents_header",
                      "print:contents">>)
            /\ pc' = "cli_parse"
            /\ UNCHANGED exc
       ELSE IF OpenHandles(OpenRaises(env.artifact))
       THEN /\ Emit(<<"op:open_artifact", "print:no_output_file">>)
            /\ pc' = "b3_begin"
            /\ UNCHANGED exc
       ELSE /\ Emit(<<"op:open_artifact">>)
            /\ exc' = Raised(OpenRaises(env.artifact), <<>>)
            /\ pc' = "cli_except"
    /\ UNCHANGED <<prog, env, encoded_arn, mcp_url, streams, session, result,
                   exitStatus>>

\* lines 76-82
CliParse ==
    /\ prog = "remoteMCP" /\ pc = "cli_parse"
    /\ IF ParseRaises(env.artifact) = ""
       THEN /\ Emit(<<"print:parsed_header", "print:parsed_json">>)
            /\ pc' = "b3_begin"
            /\ UNCHANGED exc
       ELSE IF ParseHandles(ParseRaises(env.artifact))
       THEN /\ Emit(<<"print:raw_header", "print:raw_output">>)
            /\ pc' = "b3_begin"
            /\ UNCHANGED exc
       ELSE /\ exc' = Raised(ParseRaises(env.artifact), <<>>)
            /\ pc' = "cli_except"
            /\ UNCHANGED trace
    /\ UNCHANGED <<prog, env, encoded_arn, mcp_url, streams, session, result,
                   exitStatus>>

\* lines 100-104; an exception no clause matches leaves main and ends the
\* process with status 1
CliExcept ==
    /\ prog = "remoteMCP" /\ pc = "cli_except"
    /\ LET h == CliHandlerFor(exc.cls) IN
       CASE h = "timeout" ->
              /\ Emit(<<"print:cli_timeout", "print:cli_timeout_hint">>)
              /\ pc' = "b3_begin" /\ exc' = NoExc /\ UNCHANGED exitStatus
         [] h = "generic" ->
              /\ Emit(<<"print:cli_error">>)
              /\ pc' = "b3_begin" /\ exc' = NoExc /\ UNCHANGED exitStatus
         [] OTHER ->
              /\ Emit(<<"print:traceback", "exit:1">>)
              /\ pc' = "crashed" /\ exitStatus' = 1 /\ UNCHANGED exc
    /\ UNCHANGED <<prog, env, encoded_arn, mcp_url, streams, session, result>>

\* lines 162, 108-112
B3Begin ==
    /\ prog = "remoteMCP" /\ pc = "b3_begin"
    /\ Emit(<<"call:test_with_boto3", "print:b3_header", "op:boto3_client">>)
    /\ IF env.b3 = "client_error"
       THEN exc' = Raised(B3Raises(env.b3), <<>>) /\ pc' = "b3_except"
       ELSE pc' = "b3_invoke" /\ UNCHANGED exc
    /\ UNCHANGED <<prog, env, encoded_arn, mcp_url, streams, session, result,
                   exitStatus>>

\* lines 115-142
B3Invoke ==
    /\ prog = "remoteMCP" /\ pc = "b3_invoke"
    /\ IF env.b3 \in {"invoke_error_resp", "invoke_error_plain"}
       THEN /\ Emit(<<"print:b3_payload", "print:b3_base64", "op:invoke_agent_runtime">>)
            /\ exc' = Raised(B3Raises(env.b3), <<>>)
            /\ pc' = "b3_except"
            /\ UNCHANGED result
       ELSE /\ Emit(<<"print:b3_payload", "print:b3_base64", "op:invoke_agent_runtime",
                      "print:b3_ok", "print:b3_keys">>)
            /\ result' = "response"
            /\ pc' = "b3_body"
            /\ UNCHANGED exc
    /\ UNCHANGED <<prog, env, encoded_arn, mcp_url, streams, session, exitStatus>>

\* lines 144-150
B3Body ==
    /\ prog = "remoteMCP" /\ pc = "b3_body"
    /\ CASE env.b3 = "no_body" ->
              /\ pc' = "main_end" /\ UNCHANGED <<trace, exc>>
         [] env.b3 = "body_bytes" ->
              /\ Emit(<<"print:b3_body">>)
              /\ pc' = "main_end" /\ UNCHANGED exc
         [] env.b3 = "body_stream" ->
              /\ Emit(<<"op:body_read", "print:b3_body">>)
              /\ pc' = "main_end" /\ UNCHANGED exc
         [] OTHER ->
              /\ Emit(<<"op:body_read">>)
              /\ exc' = Raised(B3Raises(env.b3), <<>>)
              /\ pc' = "b3_except"
    /\ UNCHANGED <<prog, env, encoded_arn, mcp_url, streams, session, result,
                   exitStatus>>

\* lines 152-155: except Exception as e
B3Except ==
    /\ prog = "remoteMCP" /\ pc = "b3_except"
    /\ IF IsInstance(exc.cls, "Exception")
       THEN /\ Emit(<<"print:b3_error">>
                    \o (IF exc.cls = "ClientError"
                        THEN <<"print:b3_error_response">> ELSE <<>>))
            /\ pc' = "main_end" /\ exc' = NoExc /\ UNCHANGED exitStatus
       ELSE /\ Emit(<<"print:traceback", "exit:1">>)
            /\ pc' = "crashed" /\ exitStatus' = 1 /\ UNCHANGED exc
    /\ UNCHANGED <<prog, env, encoded_arn, mcp_url, streams, session, result>>

\* lines 164-167; main returns and the interpreter ends normally
MainEnd ==
    /\ prog = "remoteMCP" /\ pc = "main_end"
    /\ Emit(<<"print:hints">>)
    /\ pc' = "done"
    /\ exitStatus' = 0
    /\ UNCHANGED <<prog, env, encoded_arn, mcp_url, streams, session, exc, result>>


---------------------------------------------------------------------------
(* The inputs of a run.  Each input is explored exhaustively up to its     *)
(* bound while the inputs the code never combines with it are drawn from   *)
(* a few representative values.                                            *)

\* fragments error texts are built from, besides the literals the code looks for
F40 == <<"4", "0">>
F1 == <<"1">>
FUnauth == <<"U", "n", "a", "u", "t", "h">>
Forized == <<"o", "r", "i", "z", "e", "d">>
FTIMEOUT == <<"T", "I", "M", "E", "O", "U", "T">>
FTime == <<"T", "i", "m", "e">>
Fout == <<"o", "u", "t">>
Fx == <<"x">>
FAccess == <<"A", "c", "c", "e", "s", "s">>
FDenied == <<"D", "e", "n", "i", "e", "d">>
FValidation == <<"V", "a", "l", "i", "d", "a", "t", "i", "o", "n">>
FException == <<"E", "x", "c", "e", "p", "t", "i", "o", "n">>
Faccessdenied == <<"a", "c", "c", "e", "s", "s", "d", "e", "n", "i", "e", "d">>

ArnChars == {":", "/", "%", "?", "#", "&", " ", "a"}
TokChars == {"A", "K", "S", "I", "x"}

ArnInputs == {NoneStr} \cup {Some(s) : s \in Strs(ArnChars, MaxArnLen)}
TokInputs == {NoneStr} \cup {Some(s) : s \in Strs(TokChars, MaxTokLen)}

ArnSamples == {Some(<<"a", ":", "a", "/", "a">>)}
TokSamples == {Some(<<"A", "K", "I", "A", "x">>), Some(<<"x", "x">>)}

WizErrFrags == {S_401, S_Unauthorized, S_403, S_Forbidden, S_timeout,
                F40, F1, FUnauth, Forized, FTIMEOUT, FTime, Fout, Fx}
WizErrTexts == Concats(WizErrFrags, MaxErrFrags)

FailPoints == {"connect", "session", "initialize", "list_tools", "dump"}

NoFailure == [failAt |-> "none", errText |-> <<>>]
WizOutcomes == {NoFailure}
               \cup {[failAt |-> f, errText |-> t] : f \in FailPoints, t \in WizErrTexts}
WizOutcomeSamples == {NoFailure, [failAt |-> "initialize", errText |-> S_401]}

WizEnv(a, t, o) ==
    [arn |-> a, token |-> t, failAt |-> o.failAt, errText |-> o.errText,
     cliKind |-> "", rc |-> 0, stderr |-> <<>>, artifact |-> "", b3 |-> ""]

WizEnvs ==
    {WizEnv(a, t, o) : a \in ArnInputs, t \in {Some(<<"x", "x">>)}, o \in WizOutcomeSamples}
    \cup {WizEnv(a, t, o) : a \in ArnSamples, t \in TokInputs, o \in WizOutcomeSamples}
    \cup {WizEnv(a, t, o) : a \in ArnSamples, t \in TokSamples, o \in WizOutcomes}

CliErrFrags == {S_AccessDenied, S_ValidationException, S_ResourceNotFound,
                FAccess, FDenied, FValidation, FException, Faccessdenied, Fx}
CliErrTexts == Concats(CliErrFrags, MaxErrFrags)
CliErrSamples == {<<>>, S_AccessDenied}

CliRaises == {"TimeoutExpired", "FileNotFoundError", "PermissionError"}
RcValues == {0, 1, 254, -9}
Artifacts == {"missing", "unreadable", "json", "text"}
B3Outcomes == {"client_error", "invoke_error_resp", "invoke_error_plain", "no_body",
               "body_bytes", "body_stream", "body_read_error"}
B3Samples == {"body_stream", "invoke_error_resp"}

RemoteEnv(k, rc, e, a, b) ==
    [arn |-> NoneStr, token |-> NoneStr, failAt |-> "", errText |-> <<>>,
     cliKind |-> k, rc |-> rc, stderr |-> e, artifact |-> a, b3 |-> b]

RemoteEnvs ==
    {RemoteEnv(k, 0, <<>>, a, b) : k \in CliRaises, a \in Artifacts, b \in B3Outcomes}
    \cup {RemoteEnv("completed", rc, e, a, b) :
            rc \in RcValues, e \in CliErrSamples, a \in Artifacts, b \in B3Outcomes}
    \cup {RemoteEnv("completed", rc, e, a, b) :
            rc \in RcValues \ {0}, e \in CliErrTexts, a \in {"missing", "json"}, b \in B3Samples}

---------------------------------------------------------------------------
(* One run of one script.                                                  *)

Init ==
    /\ prog \in {"wizmcp", "remoteMCP"}
    /\ env \in IF prog = "wizmcp" THEN WizEnvs ELSE RemoteEnvs
    /\ pc = "start"
    /\ encoded_arn = <<>>
    /\ mcp_url = <<>>
    /\ streams = "none"
    /\ session = "none"
    /\ exc = NoExc
    /\ result = ""
    /\ trace = <<>>
    /\ exitStatus = -1

Next ==
    \/ WizCheckConfig
    \/ WizBuildUrl
    \/ WizCheckToken
    \/ WizOpenTransport
    \/ WizCreateSession
    \/ WizInitialize
    \/ WizListTools
    \/ WizPrintTools
    \/ WizCloseSession
    \/ WizCloseStreams
    \/ WizHandleError
    \/ MainStart
    \/ CliBegin
    \/ CliRun
    \/ CliCheck
    \/ CliOpen
    \/ CliParse
    \/ CliExcept
    \/ B3Begin
    \/ B3Invoke
    \/ B3Body
    \/ B3Except
    \/ MainEnd

Spec == Init /\ [][Next]_vars


---------------------------------------------------------------------------
(* Vocabulary of the properties.                                           *)

Has(e) == \E i \in DOMAIN trace : trace[i] = e
Count(e) == Cardinality({i \in DOMAIN trace : trace[i] = e})
\* every occurrence of a comes before every occurrence of b
Precedes(a, b) == \A i, j \in DOMAIN trace : (trace[i] = a /\ trace[j] = b) => i < j

Terminal == pc \in {"done", "exited", "crashed"}
Wiz == prog = "wizmcp"
Remote == prog = "remoteMCP"

NetworkOps == {"op:open_transport", "op:create_session", "op:initialize", "op:list_tools"}
GuidanceEvents == {"print:guide_auth", "print:guide_perm", "print:guide_timeout",
                   "print:guide_access_denied", "print:guide_validation",
                   "print:guide_not_found"}

IsGuidance(e) == e \in GuidanceEvents
NotGuidance(e) == e \notin GuidanceEvents

\* the part of the trace that follows the first occurrence of e
After(e) ==
    IF Has(e)
    THEN SubSeq(trace, (CHOOSE i \in DOMAIN trace :
                          trace[i] = e /\ \A j \in 1..(i - 1) : trace[j] # e) + 1,
                Len(trace))
    ELSE <<>>

---------------------------------------------------------------------------
(* C1.  Streaming workflow: when AGENT_ARN or BEARER_TOKEN is absent, the  *)
(* first step ends the process with status 1, and the run never opens the  *)
(* transport, creates a session, initializes or lists tools.               *)
C1_MissingConfigExits ==
    (Wiz /\ (env.arn.isNone \/ env.token.isNone)) =>
        /\ \A e \in NetworkOps : ~Has(e)
        /\ streams = "none" /\ session = "none"
        /\ pc # "start" => (pc = "exited" /\ exitStatus = 1
                            /\ trace = <<"print:config_error", "exit:1">>)

C1_Witness ==
    /\ Wiz /\ env.arn.isNone /\ ~env.token.isNone
    /\ pc = "exited" /\ exitStatus = 1

(* C2.  CLI runner: when the external process times out, the timeout       *)
(* message is printed (and not the generic one), output.json is never      *)
(* opened or read, and the command is run once only.                       *)
C2_TimeoutReported ==
    (Remote /\ env.cliKind = "TimeoutExpired") =>
        /\ ~Has("op:open_artifact") /\ ~Has("op:read_artifact")
        /\ Count("op:subprocess_run") <= 1
        /\ Has("call:test_with_boto3") =>
             /\ Has("print:cli_timeout")
             /\ ~Has("print:cli_error")
             /\ Count("op:subprocess_run") = 1
             /\ Precedes("op:subprocess_run", "print:cli_timeout")
        /\ Terminal => Has("call:test_with_boto3")

C2_Witness ==
    /\ Remote /\ env.cliKind = "TimeoutExpired" /\ env.artifact = "json"
    /\ pc = "done" /\ Has("print:cli_timeout")

\* the CLI runner has classified the error text of a non-zero exit
CliClassified ==
    Remote /\ env.cliKind = "completed" /\ env.rc # 0 /\ Has("print:stderr")

(* C3 as stated.  Non-zero exit: AccessDenied in the error text gives the  *)
(* access-denied branch, ValidationException in it gives the validation    *)
(* branch, neither gives neither.                                          *)
C3_EachSubstringGivesItsBranch ==
    CliClassified =>
        /\ Contains(env.stderr, S_AccessDenied) => Has("print:guide_access_denied")
        /\ Contains(env.stderr, S_ValidationException) => Has("print:guide_validation")
        /\ (~Contains(env.stderr, S_AccessDenied)
            /\ ~Contains(env.stderr, S_ValidationException)) =>
               (~Has("print:guide_access_denied") /\ ~Has("print:guide_validation"))

(* C3 amended.  Non-zero exit: AccessDenied in the error text gives the    *)
(* access-denied branch; ValidationException without AccessDenied gives    *)
(* the validation branch; neither gives neither of the two.                *)
C3_FirstMatchWins ==
    CliClassified =>
        /\ Contains(env.stderr, S_AccessDenied) => Has("print:guide_access_denied")
        /\ (Contains(env.stderr, S_ValidationException)
            /\ ~Contains(env.stderr, S_AccessDenied)) => Has("print:guide_validation")
        /\ (~Contains(env.stderr, S_AccessDenied)
            /\ ~Contains(env.stderr, S_ValidationException)) =>
               (~Has("print:guide_access_denied") /\ ~Has("print:guide_validation"))

C3_Witness ==
    /\ CliClassified
    /\ Contains(env.stderr, S_AccessDenied)
    /\ Contains(env.stderr, S_ValidationException)
    /\ Has("print:guide_access_denied") /\ ~Has("print:guide_validation")
    /\ pc = "done"

(* C4.  No failure is fatal except the configuration check.  remoteMCP.py: *)
(* whatever the CLI runner meets, the direct-call runner is called exactly *)
(* once after it, and main ends normally whatever that runner meets.       *)
(* wizmcp.py: an exception raised while connecting, creating the session,  *)
(* initializing, listing or printing is reported and the process ends with *)
(* status 0; status 1 comes from the configuration check alone.            *)
C4_FailuresNotFatal ==
    /\ pc # "crashed"
    /\ Terminal \/ ENABLED Next
    /\ Remote =>
         /\ Count("call:test_with_aws_cli") <= 1
         /\ Count("call:test_with_boto3") <= 1
         /\ Precedes("call:test_with_aws_cli", "call:test_with_boto3")
         /\ Terminal => /\ pc = "done" /\ exitStatus = 0
                        /\ Count("call:test_with_aws_cli") = 1
                        /\ Count("call:test_with_boto3") = 1
                        /\ Has("print:hints")
         /\ (Has("call:test_with_boto3") /\ env.cliKind # "completed") =>
               (Has("print:cli_timeout") \/ Has("print:cli_error"))
    /\ Wiz =>
         /\ exitStatus = 1 => (~Truthy(env.arn) \/ ~Truthy(env.token))
         /\ (Terminal /\ Truthy(env.arn) /\ Truthy(env.token)) =>
               /\ pc = "done" /\ exitStatus = 0
               /\ env.failAt # "none" => Has("print:error")

C4_Witness ==
    /\ Remote /\ env.cliKind = "FileNotFoundError" /\ env.b3 = "body_read_error"
    /\ pc = "done" /\ exitStatus = 0
    /\ Has("print:cli_error") /\ Has("print:b3_error")

(* C5.  Streaming workflow: the session is closed before the streams, both *)
(* are closed before the handler prints anything, and no run ends with a   *)
(* stream or a session open, wherever the exception was raised.            *)
C5_ScopedRelease ==
    Wiz =>
        /\ session = "open" => streams = "open"
        /\ streams = "closed" => session # "open"
        /\ (pc = "handler" \/ Has("print:error")) =>
              (streams # "open" /\ session # "open")
        /\ Precedes("op:close_session", "op:close_streams")
        /\ Precedes("op:close_streams", "print:error")
        /\ Terminal =>
              /\ streams # "open" /\ session # "open"
              /\ Has("print:streams_ok") => (streams = "closed" /\ Count("op:close_streams") = 1)
              /\ Has("print:session_created") =>
                    (session = "closed" /\ Count("op:close_session") = 1)

C5_Witness ==
    /\ Wiz /\ env.failAt = "dump" /\ pc = "done"
    /\ streams = "closed" /\ session = "closed" /\ Has("print:error")

\* the encoding of one character
EncodedChar(c) == IF c = ":" THEN <<"%", "3", "A">>
                  ELSE IF c = "/" THEN <<"%", "2", "F">>
                  ELSE <<c>>

(* C6.  The identifier segment of the endpoint URL is the resource         *)
(* identifier with each ':' turned into '%3A', each '/' into '%2F', every  *)
(* other character kept, in order; it holds no ':' and no '/'.             *)
C6_ArnEncoding ==
    (Wiz /\ pc \notin {"start", "build", "exited"}) =>
        /\ encoded_arn = Flatten([i \in 1..Len(env.arn.val) |-> EncodedChar(env.arn.val[i])])
        /\ \A i \in 1..Len(encoded_arn) : encoded_arn[i] \notin {":", "/"}
        /\ Len(mcp_url) = Len(UrlPrefix) + Len(encoded_arn) + Len(UrlSuffix)
        /\ SubSeq(mcp_url, 1, Len(UrlPrefix)) = UrlPrefix
        /\ SubSeq(mcp_url, Len(UrlPrefix) + 1, Len(UrlPrefix) + Len(encoded_arn)) = encoded_arn
        /\ SubSeq(mcp_url, Len(UrlPrefix) + Len(encoded_arn) + 1, Len(mcp_url)) = UrlSuffix

C6_Witness ==
    /\ Wiz /\ env.arn.val = <<":", "%", "/">>
    /\ encoded_arn = <<"%", "3", "A", "%", "%", "2", "F">>
    /\ pc = "done"

\* the first four characters are A, K or S, I, A
HasKeyPrefix(tok) ==
    /\ Len(tok) >= 4
    /\ tok[1] = "A" /\ tok[2] \in {"K", "S"} /\ tok[3] = "I" /\ tok[4] = "A"

(* C7.  Streaming workflow: the warning is printed exactly when the bearer *)
(* token starts with AKIA or ASIA, and with or without it the run goes on  *)
(* to open the transport.                                                  *)
C7_WarningIffPrefix ==
    Wiz =>
        /\ pc \in {"start", "build", "warn", "exited"} => ~Has("print:warning")
        /\ pc \notin {"start", "build", "warn", "exited"} =>
              /\ Has("print:warning") <=> HasKeyPrefix(env.token.val)
              /\ Count("print:warning") <= 1
              /\ Has("print:blank")
              /\ pc # "connect" => Has("op:open_transport")
        /\ Precedes("print:warning", "op:open_transport")

C7_Witness ==
    /\ Wiz /\ env.token.val = <<"A", "S", "I", "A">>
    /\ Has("print:warning") /\ Has("op:open_transport")

(* C8.  Streaming workflow: when the transport opened, the session was     *)
(* created, initialize succeeded and list_tools succeeded, the run has     *)
(* reported the four steps, displays the tools list and never enters the   *)
(* exception handler.                                                      *)
C8_SuccessDisplaysTools ==
    (Wiz /\ Has("print:tools_retrieved")) =>
        /\ Has("print:streams_ok") /\ Has("print:session_created")
        /\ Has("print:initialized")
        /\ pc # "handler" /\ ~Has("print:error")
        /\ Terminal => Has("print:tools_json")

(* C9.  Streaming workflow: the steps come in the order open transport,    *)
(* create session, initialize, list tools; list_tools is issued only after *)
(* initialize succeeded, initialize only with transport and session        *)
(* acquired, and each step is issued at most once in a run.                *)
C9_StepOrderNoRetry ==
    Wiz =>
        /\ \A e \in NetworkOps : Count(e) <= 1
        /\ Has("op:create_session") => Has("print:streams_ok")
        /\ Has("op:initialize") => (Has("print:streams_ok") /\ Has("print:session_created"))
        /\ Has("op:list_tools") => Has("print:initialized")
        /\ Precedes("print:streams_ok", "op:create_session")
        /\ Precedes("print:session_created", "op:initialize")
        /\ Precedes("print:initialized", "op:list_tools")
        /\ Precedes("op:initialize", "op:close_session")
        /\ Precedes("op:list_tools", "op:close_session")
        /\ exc.raised => pc \in {"close_session", "close_streams", "handler", "done"}

C9_Witness ==
    /\ Wiz /\ env.failAt = "initialize" /\ pc = "done"
    /\ Count("op:initialize") = 1 /\ ~Has("op:list_tools")

\* what a failed streaming run does after the blank line, guidance aside,
\* by the step that failed
WizFailedRun(step) ==
    CASE step = "connect" ->
           <<"op:open_transport", "print:error", "print:traceback">>
      [] step = "session" ->
           <<"op:open_transport", "print:streams_ok", "op:create_session",
             "op:close_streams", "print:error", "print:traceback">>
      [] step = "initialize" ->
           <<"op:open_transport", "print:streams_ok", "op:create_session",
             "print:session_created", "op:initialize",
             "op:close_session", "op:close_streams", "print:error", "print:traceback">>
      [] step = "list_tools" ->
           <<"op:open_transport", "print:streams_ok", "op:create_session",
             "print:session_created", "op:initialize", "print:initialized",
             "op:list_tools",
             "op:close_session", "op:close_streams", "print:error", "print:traceback">>
      [] OTHER ->
           <<"op:open_transport", "print:streams_ok", "op:create_session",
             "print:session_created", "op:initialize", "print:initialized",
             "op:list_tools", "print:tools_retrieved", "print:tools_header",
             "op:close_session", "op:close_streams", "print:error", "print:traceback">>

\* what the direct-call runner and the end of main do, by the service's
\* behaviour
B3Run(b3) ==
    <<"call:test_with_boto3", "print:b3_header", "op:boto3_client">>
    \o (CASE b3 = "client_error" -> <<"print:b3_error">>
          [] b3 = "invoke_error_resp" ->
               <<"print:b3_payload", "print:b3_base64", "op:invoke_agent_runtime",
                 "print:b3_error", "print:b3_error_response">>
          [] b3 = "invoke_error_plain" ->
               <<"print:b3_payload", "print:b3_base64", "op:invoke_agent_runtime",
                 "print:b3_error">>
          [] b3 = "no_body" ->
               <<"print:b3_payload", "print:b3_base64", "op:invoke_agent_runtime",
                 "print:b3_ok", "print:b3_keys">>
          [] b3 = "body_bytes" ->
               <<"print:b3_payload", "print:b3_base64", "op:invoke_agent_runtime",
                 "print:b3_ok", "print:b3_keys", "print:b3_body">>
          [] b3 = "body_stream" ->
               <<"print:b3_payload", "print:b3_base64", "op:invoke_agent_runtime",
                 "print:b3_ok", "print:b3_keys", "op:body_read", "print:b3_body">>
          [] OTHER ->
               <<"print:b3_payload", "print:b3_base64", "op:invoke_agent_runtime",
                 "print:b3_ok", "print:b3_keys", "op:body_read", "print:b3_error">>)
    \o <<"print:hints">>

(* C10.  The guidance category has no effect on control flow.  A failed    *)
(* streaming run does, guidance aside, what the failing step alone fixes,  *)
(* and ends with status 0; after a non-zero exit the CLI runner returns    *)
(* without reading the artifact and the rest of the run is what the        *)
(* service's behaviour alone fixes; at most one guidance line is printed.  *)
C10_GuidanceHasNoEffect ==
    /\ Cardinality({i \in DOMAIN trace : IsGuidance(trace[i])}) <= 1
    /\ (Wiz /\ Terminal /\ exc.raised) =>
          /\ pc = "done" /\ exitStatus = 0
          /\ SelectSeq(After("print:blank"), NotGuidance) = WizFailedRun(env.failAt)
          /\ SelectSeq(After("print:traceback"), NotGuidance) = <<>>
    /\ (Remote /\ Terminal /\ env.cliKind = "completed" /\ env.rc # 0) =>
          /\ pc = "done" /\ exitStatus = 0
          /\ ~Has("op:open_artifact") /\ ~Has("op:read_artifact")
          /\ SelectSeq(After("op:subprocess_run"), NotGuidance)
               = <<"print:cli_failed", "print:returncode", "print:stdout", "print:stderr">>
                 \o B3Run(env.b3)

C10_Witness ==
    /\ Wiz /\ pc = "done" /\ env.failAt = "list_tools"
    /\ Contains(env.errText, S_401) /\ Contains(env.errText, S_403)
    /\ Has("print:guide_auth") /\ ~Has("print:guide_perm")

=============================================================================
